---- MODULE Spec2Model ----
(***************************************************************************)
(* Partition pruning of hudi-rs: crates/core/src/exprs/mod.rs (the         *)
(* comparison operators and their tokens) and                              *)
(* crates/core/src/table/partition.rs (PartitionFilter, PartitionPruner).  *)
(*                                                                         *)
(* A Rust &str / String is modelled as a TLA+ string of printable ASCII    *)
(* where it is an input, and as the sequence of its UTF-8 bytes where the  *)
(* code works on it (percent-decoding, split, split_once, the casts).      *)
(* A Result is a record: [ok |-> TRUE, val |-> v] or                       *)
(* [ok |-> FALSE, err |-> kind].                                           *)
(***************************************************************************)
EXTENDS Integers, Sequences, FiniteSets, TLC

VARIABLES pruner, built, last

vars == <<pruner, built, last>>

\* No pruner, no construction, no call yet.
None == [op |-> "none"]

Ok(v) == [ok |-> TRUE, val |-> v]

Err(e) == [ok |-> FALSE, err |-> e]

---------------------------------------------------------------------------
(* Results *)

\* The ? of Rust: the rest of the computation on the value of an Ok, the
\* error itself otherwise.
Try(r, F(_)) == IF r.ok THEN F(r.val) ELSE r

\* Result::map_err, to an error of kind e.
map_err(r, e) == IF r.ok THEN r ELSE Err(e)

---------------------------------------------------------------------------
(* Strings and bytes *)

\* The printable ASCII characters an input string may hold: bytes 32 (space)
\* to 95 (_) and 97 (a) to 126 (~), in order.
PrintableLow == " !\"#$%&'()*+,-./0123456789:;<=>?@ABCDEFGHIJKLMNOPQRSTUVWXYZ[\\]^_"

PrintableHigh == "abcdefghijklmnopqrstuvwxyz{|}~"

\* Position of the one-character string c in the string s, 0 when absent.
RECURSIVE IndexIn(_, _, _)
IndexIn(s, c, i) ==
    IF i > Len(s) THEN 0
    ELSE IF SubSeq(s, i, i) = c THEN i
    ELSE IndexIn(s, c, i + 1)

\* The byte of a character.
CharCode(c) ==
    IF c = "/" THEN 47
    ELSE IF c = "=" THEN 61
    ELSE IF c = "%" THEN 37
    ELSE IF IndexIn("0123456789", c, 1) > 0 THEN 47 + IndexIn("0123456789", c, 1)
    ELSE IF IndexIn(PrintableHigh, c, 1) > 0 THEN 96 + IndexIn(PrintableHigh, c, 1)
    ELSE 31 + IndexIn(PrintableLow, c, 1)

\* str::as_bytes: the UTF-8 bytes of a (printable ASCII) string.
as_bytes(s) == [i \in 1..Len(s) |-> CharCode(SubSeq(s, i, i))]

\* u8::to_ascii_lowercase
to_ascii_lowercase(b) == IF b >= 65 /\ b <= 90 THEN b + 32 ELSE b

\* str::eq_ignore_ascii_case
eq_ignore_ascii_case(a, b) ==
    /\ Len(a) = Len(b)
    /\ \A i \in 1..Len(a) : to_ascii_lowercase(a[i]) = to_ascii_lowercase(b[i])

IsDigit(b) == b >= 48 /\ b <= 57

\* The value of a hexadecimal digit, -1 when the byte is none.
HexVal(b) ==
    IF IsDigit(b) THEN b - 48
    ELSE IF b >= 65 /\ b <= 70 THEN b - 55
    ELSE IF b >= 97 /\ b <= 102 THEN b - 87
    ELSE -1

\* percent_encoding::percent_decode: "%XY" with two hex digits is the byte
\* 0xXY; any other '%' is kept as it is.
RECURSIVE percent_decode(_)
percent_decode(bs) ==
    IF bs = <<>> THEN <<>>
    ELSE IF /\ bs[1] = 37
            /\ Len(bs) >= 3
            /\ HexVal(bs[2]) >= 0
            /\ HexVal(bs[3]) >= 0
         THEN <<16 * HexVal(bs[2]) + HexVal(bs[3])>> \o percent_decode(SubSeq(bs, 4, Len(bs)))
         ELSE <<bs[1]>> \o percent_decode(Tail(bs))

IsCont(bs, i) == i <= Len(bs) /\ bs[i] >= 128 /\ bs[i] <= 191

InRange(bs, i, lo, hi) == i <= Len(bs) /\ bs[i] >= lo /\ bs[i] <= hi

\* Length of the well-formed UTF-8 sequence that starts bs, 0 when there is none.
Utf8SeqLen(bs) ==
    LET b == bs[1] IN
    IF b < 128 THEN 1
    ELSE IF b >= 194 /\ b <= 223 /\ IsCont(bs, 2) THEN 2
    ELSE IF b = 224 /\ InRange(bs, 2, 160, 191) /\ IsCont(bs, 3) THEN 3
    ELSE IF b >= 225 /\ b <= 236 /\ IsCont(bs, 2) /\ IsCont(bs, 3) THEN 3
    ELSE IF b = 237 /\ InRange(bs, 2, 128, 159) /\ IsCont(bs, 3) THEN 3
    ELSE IF b >= 238 /\ b <= 239 /\ IsCont(bs, 2) /\ IsCont(bs, 3) THEN 3
    ELSE IF b = 240 /\ InRange(bs, 2, 144, 191) /\ IsCont(bs, 3) /\ IsCont(bs, 4) THEN 4
    ELSE IF b >= 241 /\ b <= 243 /\ IsCont(bs, 2) /\ IsCont(bs, 3) /\ IsCont(bs, 4) THEN 4
    ELSE IF b = 244 /\ InRange(bs, 2, 128, 143) /\ IsCont(bs, 3) /\ IsCont(bs, 4) THEN 4
    ELSE 0

RECURSIVE IsUtf8(_)
IsUtf8(bs) ==
    IF bs = <<>> THEN TRUE
    ELSE LET n == Utf8SeqLen(bs) IN
         n > 0 /\ IsUtf8(SubSeq(bs, n + 1, Len(bs)))

\* PercentDecode::decode_utf8: the decoded bytes as a string, or an error
\* when they are not UTF-8.
decode_utf8(bs) == IF IsUtf8(bs) THEN Ok(bs) ELSE Err("Utf8Error")

\* Index of the first occurrence of byte b in bs, 0 when there is none.
Find(bs, b) ==
    IF \E i \in 1..Len(bs) : bs[i] = b
    THEN CHOOSE i \in 1..Len(bs) : bs[i] = b /\ \A j \in 1..(i - 1) : bs[j] # b
    ELSE 0

\* str::split(sep): the pieces between the separators; one piece (the whole
\* string, possibly empty) when there is no separator.
RECURSIVE split(_, _)
split(bs, sep) ==
    LET i == Find(bs, sep) IN
    IF i = 0 THEN <<bs>>
    ELSE <<SubSeq(bs, 1, i - 1)>> \o split(SubSeq(bs, i + 1, Len(bs)), sep)

\* str::split_once(sep): the text before and after the first separator.
split_once(bs, sep) ==
    LET i == Find(bs, sep) IN
    IF i = 0 THEN Err("None")
    ELSE Ok(<<SubSeq(bs, 1, i - 1), SubSeq(bs, i + 1, Len(bs))>>)

---------------------------------------------------------------------------
(* exprs/mod.rs: the comparison operators *)

\* enum HudiOperator (named ExprOperator where partition.rs uses it)
HudiOperator == {"Eq", "Ne", "Lt", "Lte", "Gt", "Gte"}

\* fmt with the tokens of Lte and Gte taken for one another.
fmt_swapped(op) ==
    CASE op = "Eq" -> "="
      [] op = "Ne" -> "!="
      [] op = "Lt" -> "<"
      [] op = "Lte" -> ">="
      [] op = "Gt" -> ">"
      [] op = "Gte" -> "<="

\* impl Display for HudiOperator
fmt(op) ==
    CASE op = "Eq" -> "="
      [] op = "Ne" -> "!="
      [] op = "Lt" -> "<"
      [] op = "Lte" -> "<="
      [] op = "Gt" -> ">"
      [] op = "Gte" -> ">="

TOKEN_OP_PAIRS ==
    << <<"=", "Eq">>, <<"!=", "Ne">>, <<"<", "Lt">>,
       <<"<=", "Lte">>, <<">", "Gt">>, <<">=", "Gte">> >>

\* The closure of from_str's find_map: Some(op) when the pair's token matches s.
TokenMatches(pair, s) == eq_ignore_ascii_case(as_bytes(pair[1]), as_bytes(s))

\* impl FromStr for HudiOperator: the operator of the first pair of the table
\* whose token equals s, ASCII case ignored.
RECURSIVE find_map(_, _)
find_map(pairs, s) ==
    IF pairs = <<>> THEN Err("None")
    ELSE IF TokenMatches(Head(pairs), s) THEN Ok(Head(pairs)[2])
    ELSE find_map(Tail(pairs), s)

from_str(s) == map_err(find_map(TOKEN_OP_PAIRS, s), "UnsupportedOperator")

---------------------------------------------------------------------------
(* Typed scalars: arrow's cast of one string to a data type, and the        *)
(* comparison kernels on two scalars.                                      *)

DataType == {"Int32", "Utf8", "Date32"}

Scalar(t, v) == [type |-> t, v |-> v]

\* Accumulate decimal digits as atoi's checked parse does: positively after
\* '+' or no sign, negatively after '-', an error on i32 overflow.
RECURSIVE AccDigits(_, _, _)
AccDigits(bs, acc, neg) ==
    IF bs = <<>> THEN Ok(acc)
    ELSE IF neg
         THEN IF acc < -214748364 \/ (acc = -214748364 /\ bs[1] - 48 > 8)
              THEN Err("ArrowError")
              ELSE AccDigits(Tail(bs), acc * 10 - (bs[1] - 48), neg)
         ELSE IF acc > 214748364 \/ (acc = 214748364 /\ bs[1] - 48 > 7)
              THEN Err("ArrowError")
              ELSE AccDigits(Tail(bs), acc * 10 + (bs[1] - 48), neg)

\* The digits of a number that may start with a sign.
Unsigned(bs) == IF bs # <<>> /\ bs[1] \in {43, 45} THEN Tail(bs) ELSE bs

\* String to Int32 (arrow_cast's Parser for Int32Type): an optional sign and
\* then decimal digits only, at least one, the value within i32.
ParseInt32(bs) ==
    IF Unsigned(bs) = <<>> \/ \E i \in 1..Len(Unsigned(bs)) : ~IsDigit(Unsigned(bs)[i])
    THEN Err("ArrowError")
    ELSE AccDigits(Unsigned(bs), 0, bs[1] = 45)

IsLeap(y) == (y % 4 = 0 /\ y % 100 # 0) \/ y % 400 = 0

DaysInMonth(y, m) ==
    IF m = 2 THEN (IF IsLeap(y) THEN 29 ELSE 28)
    ELSE IF m \in {4, 6, 9, 11} THEN 30 ELSE 31

\* Days from 1970-01-01 to the civil date y-m-d (Date32's value), for a year
\* yy that starts in March and the month mp counted from March.
DaysFromMarch(yy, mp, d) ==
    (yy \div 400) * 146097 + (yy % 400) * 365 + (yy % 400) \div 4
        - (yy % 400) \div 100 + (153 * mp + 2) \div 5 + d - 1 - 719468

DaysFromEpoch(y, m, d) ==
    IF m > 2 THEN DaysFromMarch(y, m - 3, d) ELSE DaysFromMarch(y - 1, m + 9, d)

\* NaiveDate::from_ymd_opt and the days of that date from the epoch.
DateOf(y, m, d) ==
    IF m >= 1 /\ m <= 12 /\ d >= 1 /\ d <= DaysInMonth(y, m)
    THEN Ok(DaysFromEpoch(y, m, d))
    ELSE Err("ArrowError")

\* The number written by the digits at positions i..j of bs, -1 when one of
\* the bytes is no digit.
RECURSIVE Num(_, _, _)
Num(bs, i, j) ==
    IF ~IsDigit(bs[j]) THEN -1
    ELSE IF i = j THEN bs[j] - 48
    ELSE IF Num(bs, i, j - 1) < 0 THEN -1
    ELSE 10 * Num(bs, i, j - 1) + bs[j] - 48

\* The positions among the first ten bytes of bs that hold a digit: the mask
\* parse_date takes of the string.
DateMask(bs) == {i \in 1..10 : i <= Len(bs) /\ IsDigit(bs[i])}

\* The byte at position i of bs is a hyphen.
HyphenAt(bs, i) == i <= Len(bs) /\ bs[i] = 45

\* The byte at position i of bs is a digit.
DigitAt(bs, i) == i <= Len(bs) /\ IsDigit(bs[i])

\* The number of digits in a row from position i of bs on, up to position j:
\* the trailing ones of the mask, which covers the first 32 bytes.
RECURSIVE DigitRun(_, _, _)
DigitRun(bs, i, j) ==
    IF i <= j /\ DigitAt(bs, i) THEN 1 + DigitRun(bs, i + 1, j) ELSE 0

\* TimestampParser::date: the first ten bytes are YYYY-MM-DD, all digits
\* written, a date of the calendar.
TimestampDate(bs) ==
    IF DateMask(bs) = {1, 2, 3, 4, 6, 7, 9, 10} /\ HyphenAt(bs, 5) /\ HyphenAt(bs, 8)
    THEN DateOf(Num(bs, 1, 4), Num(bs, 6, 7), Num(bs, 9, 10))
    ELSE Err("ArrowError")

\* NaiveTime::from_hms_nano_opt as TimestampParser::time calls it: the second
\* of the day, a leap second 60 taken as second 59.
NaiveTime(hour, min, sec) ==
    IF hour <= 23 /\ min <= 59 /\ sec <= 60
    THEN Ok(hour * 3600 + min * 60 + (IF sec = 60 THEN 59 ELSE sec))
    ELSE Err("ArrowError")

\* A time of the day and the position of the first byte after it.
TimeAt(time, offset) == Try(time, LAMBDA secs : Ok([secs |-> secs, offset |-> offset]))

\* The positions 12 to 19 of bs that hold a digit: the mask of the time.
TimeMask(bs) == {i \in 12..19 : DigitAt(bs, i)}

\* TimestampParser::time: HH:MM:SS, with a fraction of at least one digit
\* after a point, or HHMMSS; the fraction does not change the day.
TimestampTime(bs) ==
    IF TimeMask(bs) = {12, 13, 15, 16, 18, 19} /\ bs[14] = 58 /\ bs[17] = 58
    THEN IF Len(bs) >= 20 /\ bs[20] = 46
         THEN IF DigitRun(bs, 21, 32) = 0 THEN Err("ArrowError")
              ELSE TimeAt(NaiveTime(Num(bs, 12, 13), Num(bs, 15, 16), Num(bs, 18, 19)),
                          21 + DigitRun(bs, 21, 32))
         ELSE TimeAt(NaiveTime(Num(bs, 12, 13), Num(bs, 15, 16), Num(bs, 18, 19)), 20)
    ELSE IF TimeMask(bs) = {12, 13, 14, 15, 16, 17}
         THEN TimeAt(NaiveTime(Num(bs, 12, 13), Num(bs, 14, 15), Num(bs, 16, 17)), 18)
         ELSE Err("ArrowError")

\* The position of the zone: that after the time, and after the digits that
\* follow when the fraction fills the 32 bytes of the mask.
ZoneOffset(bs, offset) ==
    IF offset = 33 THEN offset + DigitRun(bs, offset, Len(bs)) ELSE offset

\* The byte at position i of bs is b.
ByteAt(bs, i, b) == i <= Len(bs) /\ bs[i] = b

\* char::is_whitespace on the character bs begins with: the number of bytes
\* of a character of White_Space (U+0009 to U+000D, U+0020, U+0085, U+00A0,
\* U+1680, U+2000 to U+200A, U+2028, U+2029, U+202F, U+205F, U+3000) in
\* UTF-8, 0 for another character and at the end.
WhiteSpaceLen(bs) ==
    IF bs = <<>> THEN 0
    ELSE IF bs[1] \in 9..13 \/ bs[1] = 32 THEN 1
    ELSE IF bs[1] = 194 /\ (ByteAt(bs, 2, 133) \/ ByteAt(bs, 2, 160)) THEN 2
    ELSE IF bs[1] = 225 /\ ByteAt(bs, 2, 154) /\ ByteAt(bs, 3, 128) THEN 3
    ELSE IF bs[1] = 226 /\ ByteAt(bs, 2, 128) /\ Len(bs) >= 3
            /\ (bs[3] \in 128..138 \/ bs[3] \in {168, 169, 175}) THEN 3
    ELSE IF bs[1] = 226 /\ ByteAt(bs, 2, 129) /\ ByteAt(bs, 3, 159) THEN 3
    ELSE IF bs[1] = 227 /\ ByteAt(bs, 2, 128) /\ ByteAt(bs, 3, 128) THEN 3
    ELSE 0

\* str::trim_start: the leading characters of White_Space are dropped.
RECURSIVE trim_start(_)
trim_start(bs) ==
    IF WhiteSpaceLen(bs) = 0 THEN bs
    ELSE trim_start(SubSeq(bs, WhiteSpaceLen(bs) + 1, Len(bs)))

\* The four digits of a fixed offset +HH:MM, +HHMM or +HH (or with -), the
\* empty sequence for a text of another length or form.
OffsetDigits(tz) ==
    IF Len(tz) = 6 /\ tz[4] = 58 THEN <<tz[2], tz[3], tz[5], tz[6]>>
    ELSE IF Len(tz) = 5 THEN <<tz[2], tz[3], tz[4], tz[5]>>
    ELSE IF Len(tz) = 3 THEN <<tz[2], tz[3], 48, 48>>
    ELSE <<>>

\* The seconds of the four digits of an offset.
OffsetSecs(ds) ==
    ((ds[1] - 48) * 10 + ds[2] - 48) * 3600 + ((ds[3] - 48) * 10 + ds[4] - 48) * 60

\* Tz::from_str with parse_fixed_offset: the seconds east of UTC, of less
\* than a day. The name of a time zone is refused, as in a build of arrow
\* without its chrono-tz feature.
parse_fixed_offset(tz) ==
    IF OffsetDigits(tz) = <<>> \/ \E i \in 1..4 : ~IsDigit(OffsetDigits(tz)[i])
    THEN Err("ArrowError")
    ELSE IF tz[1] \notin {43, 45} \/ OffsetSecs(OffsetDigits(tz)) >= 86400
         THEN Err("ArrowError")
    ELSE IF tz[1] = 43 THEN Ok(OffsetSecs(OffsetDigits(tz)))
    ELSE Ok(0 - OffsetSecs(OffsetDigits(tz)))

\* The end of string_to_datetime and date_naive: the day in UTC of the local
\* day and time, with nothing after the time, with Z as the last byte, or
\* with a fixed offset.
ZonedDate(bs, days, time) ==
    IF Len(bs) < ZoneOffset(bs, time.offset) THEN Ok(days)
    ELSE IF bs[ZoneOffset(bs, time.offset)] \in {90, 122}
            /\ ZoneOffset(bs, time.offset) = Len(bs) THEN Ok(days)
    ELSE Try(parse_fixed_offset(trim_start(SubSeq(bs, ZoneOffset(bs, time.offset), Len(bs)))),
             LAMBDA east : Ok(days + ((time.secs - east) \div 86400)))

\* string_to_datetime(&Utc, string).date_naive() for a string of more than
\* ten bytes: a date, one of T, t and space, a time and perhaps a zone.
string_to_datetime(bs) ==
    Try(TimestampDate(bs),
        LAMBDA days : IF bs[11] \notin {84, 116, 32} THEN Err("ArrowError")
                      ELSE Try(TimestampTime(bs), LAMBDA time : ZonedDate(bs, days, time)))

\* String to Date32 (arrow_cast's parse_date). A string of more than ten
\* bytes is a timestamp, of which the day is taken. Of a shorter one without
\* a hyphen in fifth place only the eight digits YYYYMMDD are a date. With
\* one, the mask of the digits decides: YYYY-MM-DD, and the month or the day
\* with one digit; bytes after the day that are no digits are not in the
\* mask and are not looked at.
ParseDate32(bs) ==
    IF Len(bs) > 10 THEN string_to_datetime(bs)
    ELSE IF ~HyphenAt(bs, 5)
         THEN IF Len(bs) = 8 /\ DateMask(bs) = 1..8
              THEN DateOf(Num(bs, 1, 4), Num(bs, 5, 6), Num(bs, 7, 8))
              ELSE Err("ArrowError")
    ELSE IF DateMask(bs) = {1, 2, 3, 4, 6, 7, 9, 10} /\ HyphenAt(bs, 8)
         THEN DateOf(Num(bs, 1, 4), Num(bs, 6, 7), Num(bs, 9, 10))
    ELSE IF DateMask(bs) = {1, 2, 3, 4, 6, 7, 9} /\ HyphenAt(bs, 8)
         THEN DateOf(Num(bs, 1, 4), Num(bs, 6, 7), Num(bs, 9, 9))
    ELSE IF DateMask(bs) = {1, 2, 3, 4, 6, 8, 9} /\ HyphenAt(bs, 7)
         THEN DateOf(Num(bs, 1, 4), Num(bs, 6, 6), Num(bs, 8, 9))
    ELSE IF DateMask(bs) = {1, 2, 3, 4, 6, 8} /\ HyphenAt(bs, 7)
         THEN DateOf(Num(bs, 1, 4), Num(bs, 6, 6), Num(bs, 8, 8))
    ELSE Err("ArrowError")

\* PartitionFilter::cast_value: the strict (safe: false) cast of the one
\* string to the data type; the scalar carries the target type.
cast_value(value, data_type) ==
    IF data_type = "Utf8" THEN Ok(Scalar("Utf8", value))
    ELSE IF data_type = "Int32"
         THEN Try(ParseInt32(value), LAMBDA n : Ok(Scalar("Int32", n)))
         ELSE Try(ParseDate32(value), LAMBDA n : Ok(Scalar("Date32", n)))

\* Byte-wise lexicographic order of two strings.
RECURSIVE BytesLt(_, _)
BytesLt(a, b) ==
    IF b = <<>> THEN FALSE
    ELSE IF a = <<>> THEN TRUE
    ELSE IF a[1] # b[1] THEN a[1] < b[1]
    ELSE BytesLt(Tail(a), Tail(b))

ScalarLt(x, y) == IF x.type = "Utf8" THEN BytesLt(x.v, y.v) ELSE x.v < y.v

\* compare with lt for lt_eq and gt for gt_eq.
compare_strict(operator, l, r) ==
    IF l.type # r.type THEN Err("ArrowError")
    ELSE Ok(CASE operator = "Eq" -> l.v = r.v
              [] operator = "Ne" -> l.v # r.v
              [] operator = "Lt" -> ScalarLt(l, r)
              [] operator = "Lte" -> ScalarLt(l, r)
              [] operator = "Gt" -> ScalarLt(r, l)
              [] operator = "Gte" -> ScalarLt(r, l))

\* arrow_ord::cmp::{eq, neq, lt, lt_eq, gt, gt_eq} on two scalars: the
\* comparison of two values of one type, an error when the types differ.
compare(operator, l, r) ==
    IF l.type # r.type THEN Err("ArrowError")
    ELSE Ok(CASE operator = "Eq" -> l.v = r.v
              [] operator = "Ne" -> l.v # r.v
              [] operator = "Lt" -> ScalarLt(l, r)
              [] operator = "Lte" -> ScalarLt(l, r) \/ l.v = r.v
              [] operator = "Gt" -> ScalarLt(r, l)
              [] operator = "Gte" -> ScalarLt(r, l) \/ l.v = r.v)

---------------------------------------------------------------------------
(* table/partition.rs: PartitionFilter *)

\* Schema::field_with_name: the first field of the schema with the name.
RECURSIVE field_with_name(_, _)
field_with_name(schema, name) ==
    IF schema = <<>> THEN Err("ArrowError")
    ELSE IF Head(schema).name = name THEN Ok(Head(schema))
    ELSE field_with_name(Tail(schema), name)

\* FilterValue without the cast: the literal kept as the string it is.
FilterValueUncast(filter, field) == Ok(Scalar("Utf8", as_bytes(filter.value)))

\* The cast of a filter's literal to the type of its field, inside try_from.
FilterValue(filter, field) == cast_value(as_bytes(filter.value), field.data_type)

\* impl TryFrom<(Filter, &Schema)> for PartitionFilter
try_from(filter, partition_schema) ==
    Try(map_err(field_with_name(partition_schema, filter.field_name), "InvalidPartitionPath"),
        LAMBDA field :
            Try(map_err(FilterValue(filter, field), "Unsupported"),
                LAMBDA value :
                    Ok([field |-> field, operator |-> filter.operator, value |-> value])))

---------------------------------------------------------------------------
(* table/partition.rs: PartitionPruner *)

\* CollectFilters as a filter_map: a filter that does not compile is left out.
RECURSIVE CollectFiltersSkip(_, _)
CollectFiltersSkip(and_filters, partition_schema) ==
    IF and_filters = <<>> THEN Ok(<<>>)
    ELSE IF try_from(Head(and_filters), partition_schema).ok
         THEN Try(CollectFiltersSkip(Tail(and_filters), partition_schema),
                  LAMBDA rest : Ok(<<try_from(Head(and_filters), partition_schema).val>> \o rest))
         ELSE CollectFiltersSkip(Tail(and_filters), partition_schema)

\* The collect of new: the compiled filters in input order, or the error of
\* the first filter that does not compile.
RECURSIVE CollectFilters(_, _)
CollectFilters(and_filters, partition_schema) ==
    IF and_filters = <<>> THEN Ok(<<>>)
    ELSE Try(try_from(Head(and_filters), partition_schema),
             LAMBDA f :
                 Try(CollectFilters(Tail(and_filters), partition_schema),
                     LAMBDA rest : Ok(<<f>> \o rest)))

\* PartitionPruner::new
new(and_filters, partition_schema, hudi_configs) ==
    Try(CollectFilters(and_filters, partition_schema),
        LAMBDA filters :
            Ok([schema |-> partition_schema,
                is_hive_style |-> hudi_configs.is_hive_style,
                is_url_encoded |-> hudi_configs.is_url_encoded,
                and_filters |-> filters]))

\* PartitionPruner::empty
empty ==
    [schema |-> <<>>, is_hive_style |-> FALSE, is_url_encoded |-> FALSE,
     and_filters |-> <<>>]

\* is_empty on the schema instead of the filters.
is_empty_schema(self) == self.schema = <<>>

\* PartitionPruner::is_empty
is_empty(self) == self.and_filters = <<>>

\* The path parse_segments splits: percent-decoded when the pruner says so.
\* partition_path is a &str: the bytes of its UTF-8.
DecodedPath(self, partition_path) ==
    IF self.is_url_encoded
    THEN decode_utf8(percent_decode(partition_path))
    ELSE Ok(partition_path)

\* RawValue without the check of the name: any name=value gives its value.
RawValueAnyName(self, field, part) ==
    IF self.is_hive_style
    THEN Try(map_err(split_once(part, 61), "InvalidPartitionPath"), LAMBDA nv : Ok(nv[2]))
    ELSE Ok(part)

\* The raw value of one part, inside parse_segments' map closure.
RawValue(self, field, part) ==
    IF self.is_hive_style
    THEN Try(map_err(split_once(part, 61), "InvalidPartitionPath"),
             LAMBDA nv :
                 IF nv[1] # as_bytes(field.name) THEN Err("InvalidPartitionPath")
                 ELSE Ok(nv[2]))
    ELSE Ok(part)

\* parse_segments' map closure: the (name, scalar) entry of one field and part.
ParsePart(self, field, part) ==
    Try(RawValue(self, field, part),
        LAMBDA value :
            Try(cast_value(value, field.data_type),
                LAMBDA scalar : Ok(<<field.name, scalar>>)))

\* The map over the zip of fields and parts, from position i on: the entries
\* in order, or the error of the first part that gives one.
RECURSIVE CollectEntries(_, _, _)
CollectEntries(self, parts, i) ==
    IF i > Len(parts) THEN Ok(<<>>)
    ELSE Try(ParsePart(self, self.schema[i], parts[i]),
             LAMBDA e :
                 Try(CollectEntries(self, parts, i + 1),
                     LAMBDA rest : Ok(<<e>> \o rest)))

\* collect into a HashMap: of two entries with one key the later one stays.
CollectMap(entries) ==
    [k \in {entries[i][1] : i \in 1..Len(entries)} |->
        entries[CHOOSE i \in 1..Len(entries) :
                  /\ entries[i][1] = k
                  /\ \A j \in (i + 1)..Len(entries) : entries[j][1] # k][2]]

\* ParseParts with only too few parts an error: the zip drops the others.
ParsePartsZip(self, parts) ==
    IF Len(parts) < Len(self.schema) THEN Err("InvalidPartitionPath")
    ELSE Try(CollectEntries(self, SubSeq(parts, 1, Len(self.schema)), 1),
             LAMBDA entries : Ok(CollectMap(entries)))

\* parse_segments from the split on: the count of the parts against the
\* schema, and then the entries.
ParseParts(self, parts) ==
    IF Len(parts) # Len(self.schema) THEN Err("InvalidPartitionPath")
    ELSE Try(CollectEntries(self, parts, 1), LAMBDA entries : Ok(CollectMap(entries)))

\* parse_segments with the split before the decoding: each part is decoded.
parse_segments_split_first(self, partition_path) ==
    IF ~self.is_url_encoded THEN ParseParts(self, split(partition_path, 47))
    ELSE IF \E i \in 1..Len(split(partition_path, 47)) :
                ~IsUtf8(percent_decode(split(partition_path, 47)[i]))
         THEN Err("Utf8Error")
         ELSE ParseParts(self, [i \in 1..Len(split(partition_path, 47)) |->
                                   percent_decode(split(partition_path, 47)[i])])

\* PartitionPruner::parse_segments
parse_segments(self, partition_path) ==
    Try(DecodedPath(self, partition_path),
        LAMBDA path : ParseParts(self, split(path, 47)))

\* The closure of should_include's all(): one filter against the segments.
FilterIncludes(segments, filter) ==
    IF filter.field.name \in DOMAIN segments
    THEN IF compare(filter.operator, segments[filter.field.name], filter.value).ok
         THEN compare(filter.operator, segments[filter.field.name], filter.value).val
         ELSE TRUE
    ELSE TRUE

\* should_include after the parse: all() over the filters.
EvalFilters(self, segments) ==
    \A i \in 1..Len(self.and_filters) : FilterIncludes(segments, self.and_filters[i])

\* IncludeOf failing closed: a path that does not parse is left out.
IncludeOfFailClosed(self, segments) ==
    IF ~segments.ok THEN FALSE ELSE EvalFilters(self, segments.val)

\* should_include from the result of the parse on.
IncludeOf(self, segments) ==
    IF ~segments.ok THEN TRUE ELSE EvalFilters(self, segments.val)

\* PartitionPruner::should_include
should_include(self, partition_path) ==
    IncludeOf(self, parse_segments(self, partition_path))

---------------------------------------------------------------------------
(* The inputs of the model *)

MaxFields == 2

MaxFilters == 2

Field(name, data_type) == [name |-> name, data_type |-> data_type]

\* The partition fields of the tests' schema (create_test_schema).
TestSchema ==
    << Field("date", "Date32"), Field("category", "Utf8"), Field("count", "Int32") >>

\* The sequences of n elements of the set S.
RECURSIVE SeqsOfLen(_, _)
SeqsOfLen(S, n) ==
    IF n = 0 THEN {<<>>}
    ELSE {Append(q, x) : q \in SeqsOfLen(S, n - 1), x \in S}

SeqsUpTo(S, n) == UNION {SeqsOfLen(S, k) : k \in 0..n}

\* The schemas: the fields of the tests' schema, some left out, at most
\* MaxFields of them, in the tests' order. Field names are unique.
Schemas ==
    {q \in SeqsUpTo(1..Len(TestSchema), MaxFields) :
        \A i \in 1..(Len(q) - 1) : q[i] < q[i + 1]}

SchemaOf(q) == [i \in 1..Len(q) |-> TestSchema[q[i]]]

Filter(field_name, operator, value) ==
    [field_name |-> field_name, operator |-> operator, value |-> value]

\* The generic filters a query hands to new: every operator on the Int32
\* field, filters on the other two fields, a literal that does not cast and
\* a field that no schema has.
Filters ==
    {Filter("count", op, "10") : op \in HudiOperator}
    \cup {Filter("category", "Eq", "A"), Filter("category", "Lt", "B"),
          Filter("date", "Gt", "2023-01-01"),
          Filter("count", "Eq", "not_a_number"),
          Filter("invalid_field", "Eq", "2023-01-01")}

FilterLists == SeqsUpTo(Filters, MaxFilters)

Configs == [is_hive_style : BOOLEAN, is_url_encoded : BOOLEAN]

\* The partition paths handed to should_include.
Paths ==
    { "count=10", "count=9", "count=11", "count=010", "count=x", "count=",
      "count", "=10", "count=1=0", "category=A", "category=B", "category=A=B",
      "date=2023-02-01", "date=2022-12-31", "date=2023-1-1", "date=2023-1-1-",
      "date=2023-02-01T00:30:00+01:00", "date=2023-02-01T00:30:00%09+01:00",
      "category=A/count=10", "category=A/count=9", "category=B/count=11",
      "category=A/count=010",
      "count=10/category=A", "category=A/nofield=10", "category=A/10",
      "date=x/nofield=10", "date=2023-02-01/category=A", "date=2022-12-31/count=10",
      "date=2023-02-01/category=A/count=10", "category=A/count=10/extra",
      "", "/", "10", "9", "A", "B", "A/10", "A/9", "2023-02-01/A", "2023-02-01",
      "count%3D10", "count%3d9", "category%3DA%2Fcount%3D10", "A%2F10",
      "count=%31%30", "category=%FF", "category=%C3%A9", "category=%zz",
      "category=A%2Fcount=11" }

\* The strings handed to from_str.
Tokens ==
    { "=", "!=", "<", "<=", ">", ">=", "??", "", "==", "=<", "<>", "!", " =", "eq" }

---------------------------------------------------------------------------
(* The state machine *)

\* pruner: the PartitionPruner of the scan, None before new or empty.
\* built:  how it was constructed: the arguments of new and what new returned.
\* last:   the call made on the operators or on the pruner, with its result.

Init ==
    /\ pruner = None
    /\ built = None
    /\ last = None

\* HudiOperator::from_str(s), while the query's filters are put together.
FromStr(s) ==
    /\ built = None
    /\ last' = [op |-> "from_str", arg |-> s, ret |-> from_str(s)]
    /\ UNCHANGED <<pruner, built>>

\* op.to_string(), while the query's filters are put together.
Display(op) ==
    /\ built = None
    /\ last' = [op |-> "to_string", arg |-> op, ret |-> fmt(op)]
    /\ UNCHANGED <<pruner, built>>

\* PartitionPruner::new(and_filters, partition_schema, hudi_configs): the one
\* construction of the pruner of this scan, the first call that is followed.
New(and_filters, partition_schema, hudi_configs) ==
    /\ built = None
    /\ last = None
    /\ built' = [by |-> "new", and_filters |-> and_filters,
                 partition_schema |-> partition_schema,
                 hudi_configs |-> hudi_configs,
                 ret |-> new(and_filters, partition_schema, hudi_configs)]
    /\ pruner' = IF built'.ret.ok THEN built'.ret.val ELSE None
    /\ last' = None

\* PartitionPruner::empty()
Empty ==
    /\ built = None
    /\ last = None
    /\ built' = [by |-> "empty", ret |-> Ok(empty)]
    /\ pruner' = empty
    /\ last' = None

\* pruner.is_empty(), which borrows the pruner (&self). The caller is
\* followed for one call on the pruner.
IsEmpty ==
    /\ pruner # None
    /\ last = None
    /\ last' = [op |-> "is_empty", ret |-> is_empty(pruner)]
    /\ UNCHANGED <<pruner, built>>

\* What a call of should_include leaves to see: its path, the local segments
\* (the result of parse_segments) and the value it returns.
CallRecord(self, partition_path, segments) ==
    [op |-> "should_include", path |-> partition_path, segments |-> segments,
     ret |-> IncludeOf(self, segments)]

\* pruner.should_include(partition_path), which borrows the pruner (&self).
ShouldInclude(partition_path) ==
    /\ pruner # None
    /\ last = None
    /\ last' = CallRecord(pruner, partition_path,
                           parse_segments(pruner, as_bytes(partition_path)))
    /\ UNCHANGED <<pruner, built>>

Next ==
    \/ \E s \in Tokens : FromStr(s)
    \/ \E op \in HudiOperator : Display(op)
    \/ built = None /\ last = None /\ \E fs \in FilterLists, q \in Schemas, c \in Configs : New(fs, SchemaOf(q), c)
    \/ Empty
    \/ IsEmpty
    \/ \E p \in Paths : ShouldInclude(p)

Spec == Init /\ [][Next]_vars

\* The construction alone: new on every list of filters, empty and
\* is_empty, without the calls on paths.
BuildNext ==
    \/ built = None /\ last = None /\ \E fs \in FilterLists, q \in Schemas, c \in Configs : New(fs, SchemaOf(q), c)
    \/ Empty
    \/ IsEmpty

BuildSpec == Init /\ [][BuildNext]_vars

\* The filter lists of a scan with at most one predicate.
SingleFilterLists == {fs \in FilterLists : Len(fs) <= 1}

\* A scan with at most one predicate, over every schema, both flags and
\* every path: parse_segments reads the schema and the flags, never the
\* filters.
ScanNext ==
    \/ \E s \in Tokens : FromStr(s)
    \/ \E op \in HudiOperator : Display(op)
    \/ built = None /\ last = None /\ \E fs \in SingleFilterLists, q \in Schemas, c \in Configs : New(fs, SchemaOf(q), c)
    \/ Empty
    \/ IsEmpty
    \/ \E p \in Paths : ShouldInclude(p)

ScanSpec == Init /\ [][ScanNext]_vars

---------------------------------------------------------------------------
(* What the claims are stated with: the path of the last call read again,  *)
(* byte by byte, without the operators of parse_segments.                  *)

Called == last.op = "should_include"

ByNew == built # None /\ built.by = "new"

\* The bytes parse_segments splits in the last call.
CallBytes == DecodedPath(pruner, as_bytes(last.path))

SlashAt(bs) == {i \in 1..Len(bs) : bs[i] = 47}

\* The number of '/'-separated parts of bs.
NumParts(bs) == Cardinality(SlashAt(bs)) + 1

\* Position of the k-th '/' of bs; 0 for k = 0 and Len(bs) + 1 past the last.
SlashPos(bs, k) ==
    IF k = 0 THEN 0
    ELSE IF k > Cardinality(SlashAt(bs)) THEN Len(bs) + 1
    ELSE CHOOSE i \in SlashAt(bs) : Cardinality({j \in SlashAt(bs) : j < i}) = k - 1

\* The k-th part of bs.
PartAt(bs, k) == SubSeq(bs, SlashPos(bs, k - 1) + 1, SlashPos(bs, k) - 1)

StartsWith(bs, prefix) ==
    Len(bs) >= Len(prefix) /\ SubSeq(bs, 1, Len(prefix)) = prefix

\* The part is name=value with the name of the field.
HiveForm(part, field) == StartsWith(part, as_bytes(field.name) \o <<61>>)

\* The text of the value in a part: after name= in hive style, else all of it.
ValueText(self, part, field) ==
    IF self.is_hive_style THEN SubSeq(part, Len(field.name) + 2, Len(part)) ELSE part

\* The typed value of the k-th part of bs for the k-th field of the schema.
TypedAt(self, bs, k) ==
    cast_value(ValueText(self, PartAt(bs, k), self.schema[k]), self.schema[k].data_type)

\* Position of the field of that name in the schema (names are unique).
FieldPos(schema, name) == CHOOSE k \in 1..Len(schema) : schema[k].name = name

\* a < b for two values of type t: numbers by value, strings byte by byte.
Less(t, a, b) ==
    IF t # "Utf8" THEN a < b
    ELSE \E k \in 1..Len(b) :
            /\ k <= Len(a) + 1
            /\ \A j \in 1..(k - 1) : a[j] = b[j]
            /\ (k = Len(a) + 1 \/ a[k] < b[k])

\* The operator applied to two typed values of type t.
Holds(operator, t, a, b) ==
    CASE operator = "Eq" -> a = b
      [] operator = "Ne" -> a # b
      [] operator = "Lt" -> Less(t, a, b)
      [] operator = "Lte" -> ~Less(t, b, a)
      [] operator = "Gt" -> Less(t, b, a)
      [] operator = "Gte" -> ~Less(t, a, b)

\* The generic filter f holds of the path bs: its operator on the typed value
\* of the part of its field and on its literal cast to the field's type.
FilterHolds(self, f, bs) ==
    Holds(f.operator,
          self.schema[FieldPos(self.schema, f.field_name)].data_type,
          TypedAt(self, bs, FieldPos(self.schema, f.field_name)).val.v,
          cast_value(as_bytes(f.value),
                     self.schema[FieldPos(self.schema, f.field_name)].data_type).val.v)

\* The generic filter does not compile against the schema, and why.
FieldMissing(f, schema) == \A k \in 1..Len(schema) : schema[k].name # f.field_name

CastFails(f, schema) ==
    /\ ~FieldMissing(f, schema)
    /\ ~cast_value(as_bytes(f.value), schema[FieldPos(schema, f.field_name)].data_type).ok

Fails(f, schema) == FieldMissing(f, schema) \/ CastFails(f, schema)

SixTokens == {"=", "!=", "<", "<=", ">", ">="}

\* The pruner with is_url_encoded = false, otherwise the same.
Plain(self) == [self EXCEPT !.is_url_encoded = FALSE]

\* The path of the last call is malformed for the pruner: it does not
\* decode, has another number of parts than the schema has fields, has a
\* part that is not name=value for its field (hive style), or a value that
\* does not cast to the type of its field.
Malformed(self, d) ==
    \/ ~d.ok
    \/ NumParts(d.val) # Len(self.schema)
    \/ \E k \in 1..Len(self.schema) :
          \/ self.is_hive_style /\ ~HiveForm(PartAt(d.val, k), self.schema[k])
          \/ ~TypedAt(self, d.val, k).ok

\* The first part that is not name=value for its field, 0 when there is none.
FirstBadForm(self, bs) ==
    IF \E k \in 1..Len(self.schema) : ~HiveForm(PartAt(bs, k), self.schema[k])
    THEN CHOOSE k \in 1..Len(self.schema) :
            /\ ~HiveForm(PartAt(bs, k), self.schema[k])
            /\ \A j \in 1..(k - 1) : HiveForm(PartAt(bs, j), self.schema[j])
    ELSE 0

\* The first of the filters that does not compile.
FirstFailing(fs, schema) ==
    CHOOSE i \in 1..Len(fs) :
        Fails(fs[i], schema) /\ \A j \in 1..(i - 1) : ~Fails(fs[j], schema)

---------------------------------------------------------------------------
(* The claims *)

\* C1: should_include fails open. Whenever parse_segments fails in a call,
\* and so whenever the path is malformed for the pruner (it does not decode,
\* has a wrong number of segments, a hive segment without '=' or with
\* another name, or a value that does not cast), the call returns true; a
\* call returns a boolean and never an error.
C1_FailOpen ==
    Called =>
        /\ last.ret \in BOOLEAN
        /\ (~last.segments.ok) => (last.ret = TRUE)
        /\ Malformed(pruner, CallBytes) => (~last.segments.ok /\ last.ret = TRUE)

\* A call on a pruner whose filter the path's text would not pass, with a
\* value that does not cast: it is included.
C1_Witness ==
    /\ Called
    /\ ByNew
    /\ built.and_filters = <<Filter("count", "Lt", "10")>>
    /\ last.path = "count=x"
    /\ pruner.is_hive_style
    /\ ~last.segments.ok
    /\ last.ret = TRUE

\* C2: for a pruner built by new and a path that parse_segments accepts,
\* should_include returns true exactly when every filter handed to new holds:
\* its operator applied to the typed value of the segment of its field and to
\* its literal cast to the type of the field (Lte and Gte inclusive).
C2_AllFiltersHold ==
    (Called /\ ByNew /\ last.segments.ok) =>
        (last.ret = \A i \in 1..Len(built.and_filters) :
                        FilterHolds(pruner, built.and_filters[i], CallBytes.val))

\* The boundary of Lte, on a value whose text is not the literal's.
C2_Witness ==
    /\ Called
    /\ ByNew
    /\ built.and_filters = <<Filter("category", "Eq", "A"), Filter("count", "Lte", "10")>>
    /\ last.path = "category=A/count=010"
    /\ last.segments.ok
    /\ last.ret = TRUE

\* C3: a pruner without filters includes everything. empty() has an empty
\* schema and both flags false; is_empty() is true of empty() and of a pruner
\* built from no filter, and false exactly when a filter was compiled; and
\* should_include of a pruner without filters is true of any string.
C3_NoFilters ==
    (pruner # None) =>
        /\ (built.by = "empty") =>
              (pruner.schema = <<>> /\ ~pruner.is_hive_style /\ ~pruner.is_url_encoded)
        /\ (last.op = "is_empty") =>
              (last.ret = (built.by = "empty" \/ built.and_filters = <<>>))
        /\ (Called /\ (built.by = "empty" \/ built.and_filters = <<>>)) =>
              (last.ret = TRUE)

\* is_empty() of a pruner built by new from no filter, over a schema with fields.
C3_Witness ==
    /\ ByNew
    /\ pruner # None
    /\ built.and_filters = <<>>
    /\ Len(pruner.schema) = 2
    /\ last.op = "is_empty"
    /\ last.ret = TRUE

\* C4: new is all or nothing. When a filter does not compile, new gives no
\* pruner but the error of the first such filter in input order:
\* InvalidPartitionPath for a field that is not in the schema, Unsupported for
\* a literal that does not cast. Otherwise it gives a pruner with one compiled
\* filter for each filter, in input order.
C4_AllOrNothing ==
    ByNew =>
        IF \E i \in 1..Len(built.and_filters) : Fails(built.and_filters[i], built.partition_schema)
        THEN /\ pruner = None
             /\ ~built.ret.ok
             /\ built.ret.err =
                  (IF FieldMissing(built.and_filters[FirstFailing(built.and_filters, built.partition_schema)],
                                   built.partition_schema)
                   THEN "InvalidPartitionPath" ELSE "Unsupported")
        ELSE /\ built.ret.ok
             /\ pruner # None
             /\ Len(pruner.and_filters) = Len(built.and_filters)
             /\ \A i \in 1..Len(built.and_filters) :
                   /\ pruner.and_filters[i].field.name = built.and_filters[i].field_name
                   /\ pruner.and_filters[i].operator = built.and_filters[i].operator
                   /\ Ok(pruner.and_filters[i].value) =
                        cast_value(as_bytes(built.and_filters[i].value),
                                   pruner.and_filters[i].field.data_type)

\* Two filters that fail for different reasons: the error is the first one's.
C4_Witness ==
    /\ ByNew
    /\ built.and_filters = <<Filter("count", "Eq", "not_a_number"),
                              Filter("invalid_field", "Eq", "2023-01-01")>>
    /\ Len(built.partition_schema) = 2
    /\ built.partition_schema[2].name = "count"
    /\ built.ret = Err("Unsupported")
    /\ pruner = None

\* C5: the tokens round-trip. from_str of one of the six tokens gives an
\* operator whose to_string is that token; from_str of the to_string of an
\* operator gives the operator; from_str of any other string fails with an
\* unsupported-operator error.
C5_RoundTrip ==
    /\ (last.op = "from_str") =>
          (IF last.arg \in SixTokens
           THEN last.ret.ok /\ last.ret.val \in HudiOperator /\ fmt(last.ret.val) = last.arg
           ELSE last.ret = Err("UnsupportedOperator"))
    /\ (last.op = "to_string") =>
          (last.ret \in SixTokens /\ from_str(last.ret) = Ok(last.arg))

\* from_str("<=").
C5_Witness ==
    /\ last.op = "from_str"
    /\ last.arg = "<="
    /\ last.ret = Ok("Lte")

\* C6 has no formula. should_include borrows the pruner (&self), and neither
\* the pruner nor a PartitionFilter has a cell or a lock: a call cannot
\* write to the pruner, and its segments are local to it. In the model
\* should_include is an operator of the pruner and the path and the pruner is
\* left as it is by the step of a call; that two calls with one path agree
\* would be two evaluations of one operator agreeing.

\* C7: a URL-encoded path is decoded and then split. With is_url_encoded the
\* parse and the result of a call are those of the decoded path under the
\* same pruner with is_url_encoded = false.
C7_DecodeFirst ==
    (Called /\ pruner.is_url_encoded /\ CallBytes.ok) =>
        /\ last.segments = parse_segments(Plain(pruner), CallBytes.val)
        /\ last.ret = should_include(Plain(pruner), CallBytes.val)

\* An encoded '/' separates two segments and an encoded '=' a name and a value.
C7_Witness ==
    /\ Called
    /\ pruner.is_url_encoded
    /\ pruner.is_hive_style
    /\ last.path = "category%3DA%2Fcount%3D10"
    /\ last.segments.ok
    /\ DOMAIN last.segments.val = {"category", "count"}
    /\ last.segments.val["count"] = Scalar("Int32", 10)

\* C8: every PartitionFilter of a pruner has a field of the schema with the
\* name of its filter, the operator of its filter, and a value of the type
\* of the field; when a literal does not cast there is no pruner.
C8_TypedFilters ==
    ByNew =>
        /\ (\E i \in 1..Len(built.and_filters) :
               CastFails(built.and_filters[i], built.partition_schema)) => (pruner = None)
        /\ (pruner # None) =>
              \A i \in 1..Len(pruner.and_filters) :
                  /\ \E k \in 1..Len(built.partition_schema) :
                        pruner.and_filters[i].field = built.partition_schema[k]
                  /\ pruner.and_filters[i].field.name = built.and_filters[i].field_name
                  /\ pruner.and_filters[i].operator = built.and_filters[i].operator
                  /\ pruner.and_filters[i].value.type = pruner.and_filters[i].field.data_type

\* A pruner with a Date32 and an Int32 filter.
C8_Witness ==
    /\ ByNew
    /\ pruner # None
    /\ Len(pruner.and_filters) = 2
    /\ pruner.and_filters[1].value.type = "Date32"
    /\ pruner.and_filters[1].value.v = 19358
    /\ pruner.and_filters[2].value.type = "Int32"
    /\ pruner.and_filters[2].value.v = 10

\* C9: parse_segments accepts a path only with as many '/'-separated
\* segments (after decoding) as the schema has fields, fails with
\* InvalidPartitionPath when there are fewer or more, and on success gives a
\* map with one entry for each field name of the schema.
C9_SegmentCount ==
    (Called /\ CallBytes.ok) =>
        /\ (NumParts(CallBytes.val) # Len(pruner.schema)) =>
              (last.segments = Err("InvalidPartitionPath"))
        /\ last.segments.ok =>
              /\ NumParts(CallBytes.val) = Len(pruner.schema)
              /\ DOMAIN last.segments.val = {pruner.schema[k].name : k \in 1..Len(pruner.schema)}
              /\ Cardinality(DOMAIN last.segments.val) = Len(pruner.schema)

\* One segment too many.
C9_Witness ==
    /\ Called
    /\ last.path = "category=A/count=10/extra"
    /\ pruner.is_hive_style
    /\ Len(pruner.schema) = 2
    /\ pruner.schema[1].name = "category"
    /\ pruner.schema[2].name = "count"
    /\ last.segments = Err("InvalidPartitionPath")

\* The values of an accepted path: each field has the typed value of the
\* part at its position (after name= in hive style, the whole part otherwise).
ValuesByPosition ==
    /\ (~Malformed(pruner, CallBytes)) => last.segments.ok
    /\ last.segments.ok =>
          \A k \in 1..Len(pruner.schema) :
              /\ pruner.is_hive_style => HiveForm(PartAt(CallBytes.val, k), pruner.schema[k])
              /\ Ok(last.segments.val[pruner.schema[k].name]) = TypedAt(pruner, CallBytes.val, k)

\* C10 as stated: in hive style a path with the right number of segments, one
\* of which is not name=value with the name of the field at its position,
\* fails with InvalidPartitionPath.
C10_AsStated ==
    (Called /\ CallBytes.ok /\ NumParts(CallBytes.val) = Len(pruner.schema)) =>
        /\ ValuesByPosition
        /\ (pruner.is_hive_style /\ FirstBadForm(pruner, CallBytes.val) > 0) =>
              (last.segments = Err("InvalidPartitionPath"))

\* C10, amended: of a path that decodes and has as many segments as the
\* schema has fields, the segments are bound to fields by position. In hive
\* style such a path with a segment that is not name=value with the name of
\* the field at its position fails: with InvalidPartitionPath when every
\* segment before the first such one has a value that casts, and else with
\* the error of the first cast that fails. An accepted path gives each field
\* the value of the segment at its position, in non-hive style the whole
\* segment. (A path that does not decode fails in the decoding, and one with
\* another number of segments in the check of the count: C9.)
C10_ByPosition ==
    (Called /\ CallBytes.ok /\ NumParts(CallBytes.val) = Len(pruner.schema)) =>
        /\ ValuesByPosition
        /\ (pruner.is_hive_style /\ FirstBadForm(pruner, CallBytes.val) > 0) =>
              /\ ~last.segments.ok
              /\ last.segments.err =
                   (IF \A j \in 1..(FirstBadForm(pruner, CallBytes.val) - 1) :
                          TypedAt(pruner, CallBytes.val, j).ok
                    THEN "InvalidPartitionPath" ELSE "ArrowError")

\* Two segments, each valid for a field of the schema, in the other order.
C10_Witness ==
    /\ Called
    /\ pruner.is_hive_style
    /\ ~pruner.is_url_encoded
    /\ last.path = "count=10/category=A"
    /\ Len(pruner.schema) = 2
    /\ pruner.schema[1].name = "category"
    /\ pruner.schema[2].name = "count"
    /\ last.segments = Err("InvalidPartitionPath")

====
